---- MODULE Spec2Model ----
(***************************************************************************)
(* Model of the changelog generator in src/main.go: the Run handler of     *)
(* rootCmd (open the output file, build the search query, fetch the merged *)
(* pull requests, render them grouped by label, write the file, optionally *)
(* publish), together with the pure functions it is built from             *)
(* (addQuery, getReleaseTime, groupedLabelContent).                        *)
(*                                                                         *)
(* A Go string is a sequence of characters; a character is a TLA+ string   *)
(* (a letter, or a multi-letter atom where the inside of the text does not *)
(* matter).  The empty Go string is the empty sequence.  The report is a   *)
(* sequence of lines, each line a Go string terminated by "\n".            *)
(***************************************************************************)
EXTENDS Integers, Sequences, FiniteSets, TLC

VARIABLES
    pc,               \* position of Run in its body
    save,             \* flag --save
    label,            \* flag --label
    previousRelease,  \* flag --previous_release
    currentRelease,   \* flag --current_release, overwritten by createQueryString
    startTime,        \* createQueryString: startTime
    endTime,          \* createQueryString: endTime
    queries,          \* Run: queries
    issues,           \* Run: issuesResult.Issues
    prGrouper,        \* groupedLabelContent: prGrouper after sort.Sort
    content,          \* Run: content
    file,             \* the output file on disk and its handle
    published,        \* release notes held by the hosted service
    trace,            \* history of the calls Run has made, in order
    fin,              \* input of the pure function under check
    fout              \* its result

vars == <<pc, save, label, previousRelease, currentRelease, startTime, endTime,
          queries, issues, prGrouper, content, file, published, trace, fin, fout>>

runVars == <<pc, save, label, previousRelease, currentRelease, startTime, endTime,
             queries, issues, prGrouper, content, file, published, trace>>

-----------------------------------------------------------------------------
(* Bounds *)

MaxIssues == 3      \* issues returned by one search
MaxQueries == 2     \* clauses already in the list handed to addQuery
MaxParts == 3       \* parts handed to addQuery

-----------------------------------------------------------------------------
(* Strings *)

None == <<"<nil>">>

\* strings.Join(parts, ""): concatenation of a sequence of strings
RECURSIVE Join(_)
Join(parts) ==
    IF parts = <<>> THEN <<>> ELSE Head(parts) \o Join(Tail(parts))

\* byte value of the characters labels are made of
Code(c) ==
    CASE c = " " -> 32
      [] c = "B" -> 66
      [] c = "F" -> 70
      [] c = "a" -> 97
      [] c = "b" -> 98
      [] c = "e" -> 101
      [] c = "f" -> 102
      [] c = "g" -> 103
      [] c = "r" -> 114
      [] c = "t" -> 116
      [] c = "u" -> 117
      [] OTHER -> 0

IsLetter(c) == Code(c) >= 65

ToUpper(c) ==
    CASE c = "a" -> "A"
      [] c = "b" -> "B"
      [] c = "e" -> "E"
      [] c = "f" -> "F"
      [] c = "g" -> "G"
      [] c = "r" -> "R"
      [] c = "t" -> "T"
      [] c = "u" -> "U"
      [] OTHER -> c

\* Go's s < t on strings: bytewise lexicographic order
RECURSIVE StrLess(_, _)
StrLess(s, t) ==
    IF t = <<>> THEN FALSE
    ELSE IF s = <<>> THEN TRUE
    ELSE IF Code(Head(s)) # Code(Head(t)) THEN Code(Head(s)) < Code(Head(t))
    ELSE StrLess(Tail(s), Tail(t))

\* strings.Title: upper-case the first letter of every word
StringsTitle(s) ==
    [i \in 1..Len(s) |->
        IF IsLetter(s[i]) /\ (i = 1 \/ ~IsLetter(s[i-1])) THEN ToUpper(s[i]) ELSE s[i]]

-----------------------------------------------------------------------------
(* Time: a time.Time is its wall clock reading in a zone, the zone's offset
   from UTC in minutes, and the nanoseconds within the second. *)

Digit(n) == CASE n = 0 -> "0" [] n = 1 -> "1" [] n = 2 -> "2" [] n = 3 -> "3"
              [] n = 4 -> "4" [] n = 5 -> "5" [] n = 6 -> "6" [] n = 7 -> "7"
              [] n = 8 -> "8" [] n = 9 -> "9"

\* fmt verb %d on a non-negative integer: decimal digits, no padding
RECURSIVE FmtD(_)
FmtD(n) == IF n < 10 THEN <<Digit(n)>> ELSE FmtD(n \div 10) \o <<Digit(n % 10)>>

\* fmt verb %02d: at least two digits, padded with zeros on the left
FmtD02(n) == IF n < 10 THEN <<"0">> \o FmtD(n) ELSE FmtD(n)

IsLeap(y) == (y % 4 = 0) /\ ((y % 100 # 0) \/ (y % 400 = 0))

DaysIn(y, m) ==
    IF m = 2 THEN (IF IsLeap(y) THEN 29 ELSE 28)
    ELSE IF m \in {4, 6, 9, 11} THEN 30 ELSE 31

\* days from 1970-01-01 to the civil date y-m-d (proleptic Gregorian)
DaysFromCivil(y, m, d) ==
    LET yy  == IF m <= 2 THEN y - 1 ELSE y
        era == yy \div 400
        yoe == yy - era * 400
        mp  == (m + 9) % 12
        doy == (153 * mp + 2) \div 5 + d - 1
        doe == yoe * 365 + yoe \div 4 - yoe \div 100 + doy
    IN  era * 146097 + doe - 719468

\* the civil date of a day number: the inverse of DaysFromCivil
CivilFromDays(z0) ==
    LET z   == z0 + 719468
        era == z \div 146097
        doe == z - era * 146097
        yoe == (doe - doe \div 1460 + doe \div 36524 - doe \div 146096) \div 365
        doy == doe - (365 * yoe + yoe \div 4 - yoe \div 100)
        mp  == (5 * doy + 2) \div 153
        d   == doy - (153 * mp + 2) \div 5 + 1
        m   == IF mp < 10 THEN mp + 3 ELSE mp - 9
        y   == yoe + era * 400 + (IF m <= 2 THEN 1 ELSE 0)
    IN  [year |-> y, month |-> m, day |-> d]

\* the instant of t as (day number, second of the day) in UTC
AbsDay(t) ==
    DaysFromCivil(t.year, t.month, t.day)
      + ((t.hour * 3600 + t.min * 60 + t.sec - t.off * 60) \div 86400)

AbsSec(t) == (t.hour * 3600 + t.min * 60 + t.sec - t.off * 60) % 86400

\* time.Time.UTC(): the same instant read in UTC
TimeUTC(t) ==
    LET c == CivilFromDays(AbsDay(t))
        s == AbsSec(t)
    IN  [year |-> c.year, month |-> c.month, day |-> c.day,
         hour |-> s \div 3600, min |-> (s % 3600) \div 60, sec |-> s % 60,
         nsec |-> t.nsec, off |-> 0]

\* getReleaseTime without line 157: the wall clock of the zone is rendered
getReleaseTimeLocal(t) ==
    FmtD(t.year) \o <<"-">> \o FmtD02(t.month) \o <<"-">> \o FmtD02(t.day)
      \o <<"T">> \o FmtD02(t.hour) \o <<":">> \o FmtD02(t.min)
      \o <<":">> \o FmtD02(t.sec) \o <<"Z">>

\* getReleaseTime, success branch: the time rendered by
\* Sprintf("%d-%02d-%02dT%02d:%02d:%02dZ", Year, Month, Day, Hour, Minute, Second)
getReleaseTime(t0) ==
    LET t == TimeUTC(t0)
    IN  FmtD(t.year) \o <<"-">> \o FmtD02(t.month) \o <<"-">> \o FmtD02(t.day)
          \o <<"T">> \o FmtD02(t.hour) \o <<":">> \o FmtD02(t.min)
          \o <<":">> \o FmtD02(t.sec) \o <<"Z">>

-----------------------------------------------------------------------------
(* Query construction *)

\* addQuery without the loop over the parts (lines 142-146)
addQueryNoEmptyCheck(qs, parts) ==
    IF Len(parts) < 2 THEN qs
    ELSE Append(qs, parts[1] \o <<":">> \o Join(Tail(parts)))

\* addQuery(queries, queryParts...)
addQuery(qs, parts) ==
    IF Len(parts) < 2 THEN qs
    ELSE IF \E i \in 1..Len(parts) : parts[i] = <<>> THEN qs
    ELSE Append(qs, parts[1] \o <<":">> \o Join(Tail(parts)))

org  == <<"knabben">>
repo == <<"widget">>

\* createQueryString, lines 127-134: the six clauses attempted in order
BuildQueries(lbl, start, end) ==
    LET q1 == addQuery(<<>>, <<<<"repo">>, org, <<"/">>, repo>>)
        q2 == addQuery(q1, <<<<"label">>, lbl>>)
        q3 == addQuery(q2, <<<<"is">>, <<"merged">>>>)
        q4 == addQuery(q3, <<<<"type">>, <<"pr">>>>)
        q5 == addQuery(q4, <<<<"merged">>, start, <<"..">>, end>>)
        q6 == addQuery(q5, <<<<"base">>, <<"master">>>>)
    IN  q6

-----------------------------------------------------------------------------
(* Rendering *)

\* fetchLabel: the first label of the issue, the empty string when it has none
fetchLabel(labels) == IF labels = <<>> THEN <<>> ELSE labels[1]

\* ContainsString: exact membership of a string in a slice
ContainsString(slice, s) == \E i \in 1..Len(slice) : slice[i] = s

\* ByLabel.Less on two PRs
ByLabelLess(a, b) == StrLess(a.Type, b.Type)

\* groupedLabelContent, lines 177-185: one PR per issue, in fetch order
MakePRs(iss) ==
    [i \in 1..Len(iss) |->
        [Title |-> iss[i].Title, Link |-> iss[i].URL, Type |-> fetchLabel(iss[i].Labels)]]

IsSorted(prs) ==
    \A i \in 1..Len(prs) : \A j \in 1..Len(prs) : i < j => ~ByLabelLess(prs[j], prs[i])

Perms(n) == {f \in [1..n -> 1..n] : \A i \in 1..n : \A j \in 1..n : f[i] = f[j] => i = j}

\* groupedLabelContent without line 186: the PRs stay in fetch order
SortOutcomesNoSort(prs) == {prs}

\* sort.Sort(ByLabel(prGrouper)): the library sorts in place by Less and does
\* not promise stability, so the result is any arrangement of the PRs that is
\* ordered by Less
SortOutcomes(prs) ==
    {q \in {[i \in 1..Len(prs) |-> prs[f[i]]] : f \in Perms(Len(prs))} : IsSorted(q)}

\* existentLabels := make([]string, 3)
SeenInit == << <<>>, <<>>, <<>> >>

\* groupedLabelContent, lines 189-195: headers and bullets, given the list of
\* labels already seen
RECURSIVE RenderPRs(_, _)
RenderPRs(prs, seen) ==
    IF prs = <<>> THEN <<>>
    ELSE LET pr     == Head(prs)
             bullet == <<"* ">> \o pr.Title \o <<" - ">> \o pr.Link
         IN  IF ~ContainsString(seen, pr.Type)
             THEN << <<>>, <<"## ">> \o StringsTitle(pr.Type), bullet >>
                    \o RenderPRs(Tail(prs), Append(seen, pr.Type))
             ELSE <<bullet>> \o RenderPRs(Tail(prs), seen)

\* groupedLabelContent, line 188: the first line of the report
TitleLine(cur, prev) == repo \o <<": ">> \o cur \o <<" -- ">> \o prev

\* groupedLabelContent, lines 188-196 on the sorted PRs
RenderReport(prs, cur, prev) == <<TitleLine(cur, prev)>> \o RenderPRs(prs, SeenInit)

-----------------------------------------------------------------------------
(* Inputs *)

\* label names the hosted service may attach to an issue
LabelNames ==
    { <<"b","u","g">>, <<"B","u","g">>, <<"f","e","a","t","u","r","e">> }

\* label lists of one issue: none, one label, or two
LabelLists ==
    {<<>>} \cup {<<l>> : l \in LabelNames}
      \cup { << <<"f","e","a","t","u","r","e">>, <<"b","u","g">> >> }

\* the URL of the i-th issue of a search result: every issue has its own
URLOf(i) == CASE i = 1 -> <<"url1">> [] i = 2 -> <<"url2">> [] i = 3 -> <<"url3">>
              [] i = 4 -> <<"url4">> [] i = 5 -> <<"url5">> [] OTHER -> <<"url6">>

IssueSeqs ==
    UNION { { [i \in 1..n |-> [Title |-> <<"fix">>, URL |-> URLOf(i), Labels |-> ls[i]]]
              : ls \in [1..n -> LabelLists] } : n \in 0..MaxIssues }

Instant(y, mo, d, h, mi, s, ns, off) ==
    [year |-> y, month |-> mo, day |-> d, hour |-> h, min |-> mi, sec |-> s,
     nsec |-> ns, off |-> off]

\* the creation instant the hosted service reports for a release tag
TagInstant(name) ==
    CASE name = <<"v1.0.0">> -> Instant(2023, 1, 1, 0, 0, 0, 0, 0)
      [] name = <<"v1.1.0">> -> Instant(2023, 2, 1, 0, 0, 0, 0, 0)
      [] OTHER               -> Instant(2023, 5, 1, 10, 3, 7, 500, 120)

\* names the hosted service reports as the latest release
LatestNames == { <<"v1.1.0">>, <<"v1.2.0">> }

\* one call made by Run: what was called, the name it was about, whether it succeeded
Ev(op, arg, ok) == [op |-> op, arg |-> arg, ok |-> ok]

-----------------------------------------------------------------------------
(* The Run handler, one action per call it makes *)

NoFn == fin = None /\ fout = None

Init ==
    /\ pc = "start"
    /\ save \in BOOLEAN
    /\ label \in { <<>>, <<"release-note">> }
    /\ previousRelease = <<"v1.0.0">>
    /\ currentRelease \in { <<>>, <<"v1.1.0">> }
    /\ startTime = None
    /\ endTime = None
    /\ queries = <<>>
    /\ issues = <<>>
    /\ prGrouper = <<>>
    /\ content = <<>>
    /\ file = [open |-> FALSE, data |-> << <<"stale">> >>]
    /\ published = <<>>
    /\ trace = << Ev("Run", currentRelease, TRUE) >>
    /\ NoFn

\* line 48 without O_TRUNC: the old contents of the file stay
OpenFileNoTrunc ==
    /\ pc = "start"
    /\ \/ /\ file' = [file EXCEPT !.open = TRUE]
          /\ pc' = "resolvePrevious"
          /\ trace' = Append(trace, Ev("OpenFile", <<>>, TRUE))
       \/ /\ pc' = "done"
          /\ trace' = Append(trace, Ev("OpenFile", <<>>, FALSE))
          /\ UNCHANGED file
    /\ UNCHANGED <<save, label, previousRelease, currentRelease, startTime, endTime,
                   queries, issues, prGrouper, content, published, fin, fout>>

\* line 48: os.OpenFile(outputFile, O_WRONLY|O_TRUNC|O_CREATE, 0600)
OpenFile ==
    /\ pc = "start"
    /\ \/ /\ file' = [open |-> TRUE, data |-> <<>>]
          /\ pc' = "resolvePrevious"
          /\ trace' = Append(trace, Ev("OpenFile", <<>>, TRUE))
       \/ /\ pc' = "done"
          /\ trace' = Append(trace, Ev("OpenFile", <<>>, FALSE))
          /\ UNCHANGED file
    /\ UNCHANGED <<save, label, previousRelease, currentRelease, startTime, endTime,
                   queries, issues, prGrouper, content, published, fin, fout>>

\* lines 108-112: startTime, err := getReleaseTime(repo, previousRelease)
ResolvePrevious ==
    /\ pc = "resolvePrevious"
    /\ \/ /\ startTime' = getReleaseTime(TagInstant(previousRelease))
          /\ pc' = IF currentRelease = <<>> THEN "latest" ELSE "resolveCurrent"
          /\ trace' = Append(trace, Ev("GetReleaseTagCreationTime", previousRelease, TRUE))
       \/ /\ pc' = "close"
          /\ trace' = Append(trace, Ev("GetReleaseTagCreationTime", previousRelease, FALSE))
          /\ UNCHANGED startTime
    /\ UNCHANGED <<save, label, previousRelease, currentRelease, endTime, queries,
                   issues, prGrouper, content, file, published, fin, fout>>

\* line 115 with := in place of =: the name lands in a local variable of
\* the if statement and the package variable stays empty
GetLatestReleaseShadowed ==
    /\ pc = "latest"
    /\ \/ \E r \in LatestNames :
            /\ pc' = "resolveCurrent"
            /\ trace' = Append(trace, Ev("GetLatestRelease", r, TRUE))
       \/ /\ pc' = "close"
          /\ trace' = Append(trace, Ev("GetLatestRelease", <<>>, FALSE))
    /\ UNCHANGED <<save, label, previousRelease, currentRelease, startTime, endTime, queries,
                   issues, prGrouper, content, file, published, fin, fout>>

\* lines 114-120: currentRelease, err = gh.GetLatestRelease(repo)
GetLatestRelease ==
    /\ pc = "latest"
    /\ \/ \E r \in LatestNames :
            /\ currentRelease' = r
            /\ pc' = "resolveCurrent"
            /\ trace' = Append(trace, Ev("GetLatestRelease", r, TRUE))
       \/ /\ pc' = "close"
          /\ trace' = Append(trace, Ev("GetLatestRelease", <<>>, FALSE))
          /\ UNCHANGED currentRelease
    /\ UNCHANGED <<save, label, previousRelease, startTime, endTime, queries,
                   issues, prGrouper, content, file, published, fin, fout>>

\* lines 121-125: endTime, err := getReleaseTime(repo, currentRelease)
ResolveCurrent ==
    /\ pc = "resolveCurrent"
    /\ \/ /\ endTime' = getReleaseTime(TagInstant(currentRelease))
          /\ pc' = "build"
          /\ trace' = Append(trace, Ev("GetReleaseTagCreationTime", currentRelease, TRUE))
       \/ /\ pc' = "close"
          /\ trace' = Append(trace, Ev("GetReleaseTagCreationTime", currentRelease, FALSE))
          /\ UNCHANGED endTime
    /\ UNCHANGED <<save, label, previousRelease, currentRelease, startTime, queries,
                   issues, prGrouper, content, file, published, fin, fout>>

\* lines 127-134: the six addQuery calls
createQueryString ==
    /\ pc = "build"
    /\ queries' = BuildQueries(label, startTime, endTime)
    /\ trace' = Append(trace, Ev("addQuery", <<>>, TRUE))
    /\ pc' = "search"
    /\ UNCHANGED <<save, label, previousRelease, currentRelease, startTime, endTime,
                   issues, prGrouper, content, file, published, fin, fout>>

\* lines 67-71 without the return at line 70: a failed search is logged
\* and the run goes on with an empty result
SearchIssuesNoReturn ==
    /\ pc = "search"
    /\ \/ \E iss \in IssueSeqs :
            /\ issues' = iss
            /\ trace' = Append(trace, Ev("SearchIssues", <<>>, TRUE))
       \/ /\ trace' = Append(trace, Ev("SearchIssues", <<>>, FALSE))
          /\ UNCHANGED issues
    /\ pc' = "render"
    /\ UNCHANGED <<save, label, previousRelease, currentRelease, startTime, endTime,
                   queries, prGrouper, content, file, published, fin, fout>>

\* lines 67-71: issuesResult, err := gh.SearchIssues(queries, "")
SearchIssues ==
    /\ pc = "search"
    /\ \/ \E iss \in IssueSeqs :
            /\ issues' = iss
            /\ pc' = "render"
            /\ trace' = Append(trace, Ev("SearchIssues", <<>>, TRUE))
       \/ /\ pc' = "close"
          /\ trace' = Append(trace, Ev("SearchIssues", <<>>, FALSE))
          /\ UNCHANGED issues
    /\ UNCHANGED <<save, label, previousRelease, currentRelease, startTime, endTime,
                   queries, prGrouper, content, file, published, fin, fout>>

\* line 72: content := groupedLabelContent(issuesResult)
groupedLabelContent ==
    /\ pc = "render"
    /\ prGrouper' \in SortOutcomes(MakePRs(issues))
    /\ content' = RenderReport(prGrouper', currentRelease, previousRelease)
    /\ pc' = "write"
    /\ UNCHANGED <<save, label, previousRelease, currentRelease, startTime, endTime,
                   queries, issues, file, published, trace, fin, fout>>

\* line 75: f.WriteString(content), its error ignored; a failed write leaves
\* a proper prefix of the content in the file: nothing, or all but the last line
WriteString ==
    /\ pc = "write"
    /\ \/ /\ file' = [file EXCEPT !.data = file.data \o content]
          /\ trace' = Append(trace, Ev("WriteString", <<>>, TRUE))
       \/ /\ \E k \in {0, Len(content) - 1} :
               file' = [file EXCEPT !.data = file.data \o SubSeq(content, 1, k)]
          /\ trace' = Append(trace, Ev("WriteString", <<>>, FALSE))
    /\ pc' = IF save THEN "publish" ELSE "close"
    /\ UNCHANGED <<save, label, previousRelease, currentRelease, startTime, endTime,
                   queries, issues, prGrouper, content, published, fin, fout>>

\* lines 77-82: gh.UpdateReleaseNotes(repo, currentRelease, content)
UpdateReleaseNotes ==
    /\ pc = "publish"
    /\ \/ /\ published' = Append(published, [release |-> currentRelease, body |-> content])
          /\ trace' = Append(trace, Ev("UpdateReleaseNotes", currentRelease, TRUE))
       \/ /\ trace' = Append(trace, Ev("UpdateReleaseNotes", currentRelease, FALSE))
          /\ UNCHANGED published
    /\ pc' = "close"
    /\ UNCHANGED <<save, label, previousRelease, currentRelease, startTime, endTime,
                   queries, issues, prGrouper, content, file, fin, fout>>

\* lines 53-57: the deferred f.Close(), run when Run returns
CloseFile ==
    /\ pc = "close"
    /\ file' = [file EXCEPT !.open = FALSE]
    /\ trace' = Append(trace, Ev("Close", <<>>, TRUE))
    /\ pc' = "done"
    /\ UNCHANGED <<save, label, previousRelease, currentRelease, startTime, endTime,
                   queries, issues, prGrouper, content, published, fin, fout>>

\* the process dies between two calls; the system closes the file
Crash ==
    /\ pc \notin {"start", "done", "crashed", "idle"}
    /\ pc' = "crashed"
    /\ file' = [file EXCEPT !.open = FALSE]
    /\ UNCHANGED <<save, label, previousRelease, currentRelease, startTime, endTime,
                   queries, issues, prGrouper, content, published, trace, fin, fout>>

Next ==
    \/ OpenFile
    \/ ResolvePrevious
    \/ GetLatestRelease
    \/ ResolveCurrent
    \/ createQueryString
    \/ SearchIssues
    \/ groupedLabelContent
    \/ WriteString
    \/ UpdateReleaseNotes
    \/ CloseFile
    \/ Crash

Spec == Init /\ [][Next]_vars

-----------------------------------------------------------------------------
(* The pure functions on their own: an input is drawn, the function applied *)

Clauses == { <<"is", ":", "merged">>, <<"type", ":", "pr">> }

PartStrs == { <<>>, <<"label">>, <<"x">>, <<"x", "y">> }

SeqsUpTo(S, n) == UNION { [1..k -> S] : k \in 0..n }

\* years of release tags: four digits, with a leap year, a century leap year
\* and the first year a commit date can carry
YearsIn   == {1970, 2000, 2023, 2024}
MonthsIn  == {1, 2, 3, 5, 12}
DaysOfMonthIn == {1, 28, 29, 31}
HoursIn   == {0, 10, 23}
MinutesIn == {0, 3, 59}
SecondsIn == {0, 7, 59}
NanosIn   == {0, 999999999}
\* zone offsets in minutes: -12:00, UTC, +02:00, +05:30, +14:00
OffsetsIn == {-720, 0, 120, 330, 840}

TimeInputs ==
    { t \in { Instant(y, mo, d, h, mi, sc, ns, off) :
                y \in YearsIn, mo \in MonthsIn, d \in DaysOfMonthIn, h \in HoursIn,
                mi \in MinutesIn, sc \in SecondsIn, ns \in NanosIn, off \in OffsetsIn }
        : t.day <= DaysIn(t.year, t.month) }

FnInputs ==
    { [fn |-> "addQuery", queries |-> qs, parts |-> ps] :
        qs \in SeqsUpTo(Clauses, MaxQueries), ps \in SeqsUpTo(PartStrs, MaxParts) }
    \cup
    { [fn |-> "createQueryString", label |-> l, start |-> getReleaseTime(a),
       end |-> getReleaseTime(b)] :
        l \in { <<>>, <<"release-note">>, <<"label">> },
        a \in { TagInstant(<<"v1.0.0">>) },
        b \in { TagInstant(<<"v1.1.0">>), TagInstant(<<"v1.2.0">>) } }
    \cup
    { [fn |-> "getReleaseTime", t |-> t] : t \in TimeInputs }

RunIdle ==
    /\ pc = "idle"
    /\ save = FALSE
    /\ label = <<>>
    /\ previousRelease = <<>>
    /\ currentRelease = <<>>
    /\ startTime = None
    /\ endTime = None
    /\ queries = <<>>
    /\ issues = <<>>
    /\ prGrouper = <<>>
    /\ content = <<>>
    /\ file = [open |-> FALSE, data |-> <<>>]
    /\ published = <<>>
    /\ trace = <<>>

InitFn ==
    /\ RunIdle
    /\ fin \in FnInputs
    /\ fout = None

ApplyAddQuery ==
    /\ fout = None
    /\ fin.fn = "addQuery"
    /\ fout' = addQuery(fin.queries, fin.parts)
    /\ UNCHANGED <<fin, runVars>>

ApplyCreateQueryString ==
    /\ fout = None
    /\ fin.fn = "createQueryString"
    /\ fout' = BuildQueries(fin.label, fin.start, fin.end)
    /\ UNCHANGED <<fin, runVars>>

ApplyGetReleaseTime ==
    /\ fout = None
    /\ fin.fn = "getReleaseTime"
    /\ fout' = getReleaseTime(fin.t)
    /\ UNCHANGED <<fin, runVars>>

NextFn ==
    \/ ApplyAddQuery
    \/ ApplyCreateQueryString
    \/ ApplyGetReleaseTime

SpecFn == InitFn /\ [][NextFn]_vars

-----------------------------------------------------------------------------
(* Reading the report and the call history *)

Rendered == content # <<>>

IsHeader(line) == Len(line) >= 1 /\ line[1] = "## "

IsBullet(line) == Len(line) >= 1 /\ line[1] = "* "

\* the bullet line that shows an issue
BulletOf(issue) == <<"* ">> \o issue.Title \o <<" - ">> \o issue.URL

\* the classification label of an issue
Classification(issue) == fetchLabel(issue.Labels)

\* where the bullet of the i-th fetched issue stands in the report
LineOf(i) == CHOOSE k \in 1..Len(content) : content[k] = BulletOf(issues[i])

\* the classification label of the PR whose bullet is line k
LabelOfLine(k) ==
    Classification(issues[CHOOSE i \in 1..Len(issues) : BulletOf(issues[i]) = content[k]])

BulletLines == {k \in 1..Len(content) : IsBullet(content[k])}

BulletsOf(l) == {k \in BulletLines : LabelOfLine(k) = l}

\* the header lines that open the bullets of label l
HeadersOf(l) ==
    {k \in 1..(Len(content) - 1) :
        IsHeader(content[k]) /\ (k + 1) \in BulletsOf(l)}

Min(S) == CHOOSE x \in S : \A y \in S : x <= y

LabelsFetched == {Classification(issues[i]) : i \in 1..Len(issues)}

Called(op) == {k \in 1..Len(trace) : trace[k].op = op}

Failed(op) == {k \in Called(op) : ~trace[k].ok}

IsPrefix(a, b) == Len(a) <= Len(b) /\ SubSeq(b, 1, Len(a)) = a

Feature == <<"f","e","a","t","u","r","e">>
Bug == <<"b","u","g">>

-----------------------------------------------------------------------------
(* Properties *)

\* C1: every classification label among the fetched issues, the empty one of
\* an issue without labels included, has exactly one "## <Label>" header line
\* in the report, standing right before the first bullet of that label.
HeaderOnce ==
    Rendered =>
        \A l \in LabelsFetched :
            /\ HeadersOf(l) = {Min(BulletsOf(l)) - 1}
            /\ content[Min(BulletsOf(l)) - 1] = <<"## ">> \o StringsTitle(l)

\* C2: two issues with the same classification label have their bullets in
\* the report in the order in which they were fetched.
StableGrouping ==
    Rendered =>
        \A i \in 1..Len(issues) : \A j \in 1..Len(issues) :
            (i < j /\ Classification(issues[i]) = Classification(issues[j]))
                => LineOf(i) < LineOf(j)

\* C3: addQuery returns the list unchanged when it gets fewer than two parts
\* or an empty part, and otherwise the list with the one clause
\* "parts[0]:parts[1]parts[2]..." appended; createQueryString with an empty
\* label yields no "label:" clause (and with a label, exactly one).
QueryClauseOmission ==
    /\ (fout # None /\ fin.fn = "addQuery") =>
          LET ps == fin.parts
              qs == fin.queries
              \* where part i starts inside the clause
              Off[i \in 1..(Len(ps) + 1)] ==
                  IF i = 1 THEN 0
                  ELSE IF i = 2 THEN Len(ps[1]) + 1
                  ELSE Off[i - 1] + Len(ps[i - 1])
          IN  IF Len(ps) < 2 \/ (\E i \in 1..Len(ps) : Len(ps[i]) = 0)
              THEN fout = qs
              ELSE /\ Len(fout) = Len(qs) + 1
                   /\ \A k \in 1..Len(qs) : fout[k] = qs[k]
                   /\ LET c == fout[Len(fout)]
                      IN  /\ Len(c) = Off[Len(ps) + 1]
                          /\ c[Len(ps[1]) + 1] = ":"
                          /\ \A i \in 1..Len(ps) : \A j \in 1..Len(ps[i]) :
                                c[Off[i] + j] = ps[i][j]
    /\ (fout # None /\ fin.fn = "createQueryString") =>
          Cardinality({k \in 1..Len(fout) : fout[k][1] = "label" /\ fout[k][2] = ":"})
             = (IF fin.label = <<>> THEN 0 ELSE 1)

QueryClauseOmissionWitness ==
    \/ /\ fout # None
       /\ fin.fn = "addQuery"
       /\ Len(fin.parts) = 3
       /\ fin.parts[1] # <<>>
       /\ fin.parts[3] = <<>>
       /\ fin.queries # <<>>
       /\ fout = fin.queries
    \/ /\ fout # None
       /\ fin.fn = "createQueryString"
       /\ fin.label = <<>>
       /\ Len(fout) = 5

\* the release name between ": " and " -- " in the first line of a report
ShownRelease(line) == SubSeq(line, Len(repo) + 2, Len(line) - Len(previousRelease) - 1)

\* C4: in a run started with currentRelease unset, GetLatestRelease is
\* called before any query clause is built, the end time is resolved for the
\* name it returned, and that name is the release shown in the first line of
\* the report written to the file.
DefaultCurrentRelease ==
    trace[1].arg = <<>> =>
        /\ \A k \in Called("addQuery") :
              \E j \in Called("GetLatestRelease") :
                  /\ j < k
                  /\ trace[j].ok
                  /\ \E e \in Called("GetReleaseTagCreationTime") :
                        j < e /\ e < k /\ trace[e].arg = trace[j].arg
        /\ \A w \in Called("WriteString") :
              trace[w].ok =>
                  \E j \in Called("GetLatestRelease") :
                      j < w /\ trace[j].ok /\ ShownRelease(file.data[1]) = trace[j].arg

DefaultCurrentReleaseWitness ==
    /\ pc = "done"
    /\ trace[1].arg = <<>>
    /\ Called("GetLatestRelease") # {}
    /\ Rendered
    /\ file.data = content
    /\ ShownRelease(file.data[1]) = <<"v1.2.0">>

\* one of the lookups or the search has returned an error
UpstreamFailed ==
    Failed("GetReleaseTagCreationTime") \cup Failed("GetLatestRelease")
        \cup Failed("SearchIssues") # {}

\* C5: once resolving the previous-release time, the latest release name or
\* the current-release time, or the search, has failed, nothing is rendered,
\* the opened file stays empty, the publisher is never called (save set or
\* not) and the run only returns.
StopEarly ==
    UpstreamFailed =>
        /\ pc \in {"close", "done", "crashed"}
        /\ file.data = <<>>
        /\ content = <<>>
        /\ Called("WriteString") = {}
        /\ Called("UpdateReleaseNotes") = {}
        /\ published = <<>>

StopEarlyWitness ==
    /\ pc = "done"
    /\ save
    /\ Failed("SearchIssues") # {}
    /\ file = [open |-> FALSE, data |-> <<>>]

\* C6 as stated: when the publisher is invoked the file has been opened,
\* written exactly once and closed.
WriteThenPublishClosed ==
    \A k \in Called("UpdateReleaseNotes") :
        /\ \E o \in Called("OpenFile") : o < k /\ trace[o].ok
        /\ Cardinality({w \in Called("WriteString") : w < k}) = 1
        /\ \E c \in Called("Close") : c < k

\* C6 amended: when the publisher is invoked the file has been opened with
\* truncation and WriteString has been called on it exactly once, so it holds
\* nothing but what that call wrote; it is still open, and is closed only
\* after the publisher has returned.
WriteThenPublish ==
    /\ \A k \in Called("UpdateReleaseNotes") :
          /\ \E o \in Called("OpenFile") : o < k /\ trace[o].ok
          /\ Cardinality({w \in Called("WriteString") : w < k}) = 1
          /\ \A c \in Called("Close") : c > k
          /\ pc = "done" => Called("Close") # {}
          /\ IsPrefix(file.data, content)
    /\ pc = "publish" =>
          /\ file.open
          /\ IsPrefix(file.data, content)
          /\ Cardinality(Called("WriteString")) = 1

WriteThenPublishWitness ==
    /\ pc = "done"
    /\ published # <<>>
    /\ file = [open |-> FALSE, data |-> content]
    /\ Len(content) > 1

\* C7: release notes are never published while the rendered content is not
\* in the local file, whether the write failed or the process died.
PublishedImpliesWritten ==
    published # <<>> => file.data = content

\* C8: the bullets of the report stand in nondecreasing order of their PR's
\* classification label; one "bug" and one "feature" PR give the "## Bug"
\* section before the "## Feature" section in either fetch order.
LabelSortedLayout ==
    Rendered =>
        /\ \A k1 \in BulletLines : \A k2 \in BulletLines :
              k1 < k2 => ~StrLess(LabelOfLine(k2), LabelOfLine(k1))
        /\ (Len(issues) = 2 /\ LabelsFetched = {Bug, Feature}) =>
              /\ Len(content) = 7
              /\ content[3] = <<"## ", "B", "u", "g">>
              /\ content[6] = <<"## ", "F", "e", "a", "t", "u", "r", "e">>

LabelSortedLayoutWitness ==
    /\ Rendered
    /\ Len(issues) = 2
    /\ Classification(issues[1]) = Feature
    /\ Classification(issues[2]) = Bug
    /\ content[4] = BulletOf(issues[2])
    /\ content[7] = BulletOf(issues[1])

\* reading a rendered number back: the value of a digit, of a digit string
DigitVal(c) ==
    CASE c = "0" -> 0 [] c = "1" -> 1 [] c = "2" -> 2 [] c = "3" -> 3 [] c = "4" -> 4
      [] c = "5" -> 5 [] c = "6" -> 6 [] c = "7" -> 7 [] c = "8" -> 8 [] c = "9" -> 9
      [] OTHER -> -1

RECURSIVE Num(_)
Num(ds) == IF ds = <<>> THEN 0 ELSE 10 * Num(SubSeq(ds, 1, Len(ds) - 1)) + DigitVal(ds[Len(ds)])

\* C9: getReleaseTime renders the instant, read in UTC, as
\* YYYY-MM-DDTHH:MM:SSZ: twenty characters, every field of its fixed width,
\* no fraction of a second; 2023-05-01T10:03:07+02:00 gives
\* 2023-05-01T08:03:07Z.
TimestampFormatting ==
    (fout # None /\ fin.fn = "getReleaseTime") =>
        /\ Len(fout) = 20
        /\ \A i \in {1, 2, 3, 4, 6, 7, 9, 10, 12, 13, 15, 16, 18, 19} : DigitVal(fout[i]) >= 0
        /\ fout[5] = "-" /\ fout[8] = "-" /\ fout[11] = "T"
        /\ fout[14] = ":" /\ fout[17] = ":" /\ fout[20] = "Z"
        /\ LET y  == Num(SubSeq(fout, 1, 4))
               mo == Num(SubSeq(fout, 6, 7))
               d  == Num(SubSeq(fout, 9, 10))
               h  == Num(SubSeq(fout, 12, 13))
               mi == Num(SubSeq(fout, 15, 16))
               sc == Num(SubSeq(fout, 18, 19))
               t  == fin.t
           IN  /\ mo \in 1..12 /\ d \in 1..DaysIn(y, mo)
               /\ h \in 0..23 /\ mi \in 0..59 /\ sc \in 0..59
               \* the same instant, counted in minutes, and the same second
               /\ DaysFromCivil(y, mo, d) * 1440 + h * 60 + mi
                    = DaysFromCivil(t.year, t.month, t.day) * 1440
                        + t.hour * 60 + t.min - t.off
               /\ sc = t.sec
        /\ [fin.t EXCEPT !.nsec = 0] = Instant(2023, 5, 1, 10, 3, 7, 0, 120) =>
              fout = <<"2","0","2","3","-","0","5","-","0","1","T",
                       "0","8",":","0","3",":","0","7","Z">>

TimestampFormattingWitness ==
    /\ fin.fn = "getReleaseTime"
    /\ fin.t = Instant(2023, 5, 1, 10, 3, 7, 999999999, 120)
    /\ fout = <<"2","0","2","3","-","0","5","-","0","1","T",
                "0","8",":","0","3",":","0","7","Z">>

\* C10: the report is the one the same procedure renders when the list of
\* seen labels starts empty instead of holding three empty strings.
SeedingUnobservable ==
    Rendered =>
        content = <<TitleLine(currentRelease, previousRelease)>> \o RenderPRs(prGrouper, <<>>)

====
